---------------------------- MODULE Spec2Model ----------------------------
(***************************************************************************)
(* A model of the Lua tokenizer of src/src/main.rs: the Tokenizer struct   *)
(* (input, pos, tokens), the driver loop of main, the dispatch of          *)
(* next_token and the sub-scanners read_string, read_single_line_comment,  *)
(* read_multi_line_comment, read_digit and the identifier loop of          *)
(* read_other_tokens.  Every loop iteration of a sub-scanner is one step,  *)
(* so the cursor is observable inside the scanners.                        *)
(*                                                                         *)
(* Bytes are their ASCII codes.  A panic (a slice index past the end) ends *)
(* the process in pc = "panic".  A Vec that grows without end (a loop that *)
(* never leaves) ends the process when the allocation fails, pc = "oom":   *)
(* MemCap is the number of elements a Vec can hold.  An i64 operation that *)
(* overflows panics in a build with overflow checks (cargo's debug         *)
(* profile), pc = "overflow_panic", and wraps in a build without them.     *)
(***************************************************************************)
EXTENDS Integers, Sequences, FiniteSets

VARIABLES
    input,       \* Tokenizer.input, the bytes of the source text
    pos,         \* Tokenizer.pos, the cursor
    tokens,      \* Tokenizer.tokens, with the cursor before/after each call
    pc,          \* where the program is: main loop, a sub-scanner, or ended
    buf,         \* the local Vec<u8> of the running sub-scanner
    start_char,  \* read_string's start_char
    hex,         \* read_digit's hex flag
    tok_start,   \* the cursor when the running next_token call was made
    overflow_checks  \* the build: integer overflow panics (debug profile)
                     \* or wraps (release profile)

vars ==
    <<input, pos, tokens, pc, buf, start_char, hex, tok_start,
      overflow_checks>>

-----------------------------------------------------------------------------
(* Bounds of the model. *)

\* Every input of at most MaxLen bytes over Alphabet is lexed.
MaxLen == 3

\* Every input of at most StrMaxLen bytes over StrAlphabet is lexed.
StrMaxLen == 6

\* Every hex literal of at most HexShortDigits bytes over HexAlphabet after
\* its prefix is lexed.
HexShortDigits == 3

\* Hex literals of up to HexMaxDigits digits are lexed.
HexMaxDigits == 18

\* Every input of at most IdentMaxLen bytes over IdentAlphabet is lexed.
IdentMaxLen == 4

\* Every input of at most NumMaxLen bytes over NumAlphabet is lexed.
NumMaxLen == 5

\* Every input of at most CmtMaxLen bytes over CmtAlphabet is lexed.
CmtMaxLen == 5

\* The value byte_at returns past the end of the input.
EOF_BYTE == 3

\* The ASCII codes of the byte literals the source names.
B == [ nul |-> 0, tab |-> 9, nl |-> 10, vt |-> 11, ff |-> 12, cr |-> 13,
       space |-> 32, dquote |-> 34, hash |-> 35, percent |-> 37, amp |-> 38,
       squote |-> 39, lparen |-> 40, rparen |-> 41, star |-> 42, plus |-> 43,
       comma |-> 44, minus |-> 45, dot |-> 46, slash |-> 47, zero |-> 48,
       nine |-> 57, colon |-> 58, semicolon |-> 59, less |-> 60,
       assign |-> 61, greater |-> 62, at |-> 64, upA |-> 65, upE |-> 69,
       upF |-> 70, upX |-> 88, upZ |-> 90, lbracket |-> 91,
       backslash |-> 92, rbracket |-> 93, caret |-> 94, underscore |-> 95,
       lowA |-> 97, lowE |-> 101, lowF |-> 102, lowX |-> 120, lowZ |-> 122,
       lbrace |-> 123, pipe |-> 124, rbrace |-> 125, tilde |-> 126,
       del |-> 127 ]

\* The bytes of the exhaustively lexed short inputs: ETX, newline, " - . 1 :
\* < = > @ [ \ ] a ~
Alphabet == {3, 10, 34, 45, 46, 49, 58, 60, 61, 62, 64, 91, 92, 93, 97, 126}

\* The bytes of the exhaustively lexed string inputs: " ' \ a
StrAlphabet == {34, 39, 92, 97}

SeqsUpTo(S, n) == UNION {[1..k -> S] : k \in 0..n}

ShortInputs == SeqsUpTo(Alphabet, MaxLen)

StrInputs == SeqsUpTo(StrAlphabet, StrMaxLen)

\* Longer inputs, one per rule of the lexer:
\*   "hello"    "hello    -- a comment\nx    --[[ c ]]    [[x]]
\*   0x1A    3.1415    10E+4    and    android    .52    and android
Corpus ==
    { <<34, 104, 101, 108, 108, 111, 34>>,
      <<34, 104, 101, 108, 108, 111>>,
      <<45, 45, 32, 97, 32, 99, 111, 109, 109, 101, 110, 116, 10, 120>>,
      <<45, 45, 91, 91, 32, 99, 32, 93, 93>>,
      <<91, 91, 120, 93, 93>>,
      <<48, 120, 49, 65>>,
      <<51, 46, 49, 52, 49, 53>>,
      <<49, 48, 69, 43, 52>>,
      <<97, 110, 100>>,
      <<97, 110, 100, 114, 111, 105, 100>>,
      <<46, 53, 50>>,
      <<97, 110, 100, 32, 97, 110, 100, 114, 111, 105, 100>> }

Inputs == ShortInputs \cup Corpus

EscInputs == StrInputs \cup Corpus

\* The bytes after the prefix of the short hex literals: 1 A f g
HexAlphabet == {49, 65, 102, 103}

\* The digits of the long hex literals: 1 A f
HexDigits == {49, 65, 102}

\* 0x or 0X, then every short run over HexAlphabet
HexShort ==
    {<<48, x>> \o ds : x \in {120, 88},
                       ds \in SeqsUpTo(HexAlphabet, HexShortDigits)}

\* 0x or 0X, then n digits: a first, a last, and one digit repeated between
HexLong ==
    {<<48, x>> \o [i \in 1..n |-> IF i = 1 THEN a ELSE IF i = n THEN b ELSE c] :
        x \in {120, 88}, n \in 1..HexMaxDigits,
        a \in HexDigits, b \in HexDigits, c \in HexDigits}

HexInputs == HexShort \cup HexLong \cup Corpus

\* The bytes of the identifier inputs: space 1 A N _ a d f i n
IdentAlphabet == {32, 49, 65, 78, 95, 97, 100, 102, 105, 110}

IdentInputs == SeqsUpTo(IdentAlphabet, IdentMaxLen) \cup Corpus

\* The bytes of the number inputs: + . 1 2 e
NumAlphabet == {43, 46, 49, 50, 101}

NumInputs == SeqsUpTo(NumAlphabet, NumMaxLen) \cup Corpus

\* The bytes of the block comment inputs: newline A [ ] a
CmtAlphabet == {10, 65, 91, 93, 97}

CmtInputs == SeqsUpTo(CmtAlphabet, CmtMaxLen) \cup Corpus

MaxOf(S) == CHOOSE n \in S : \A m \in S : m <= n

MaxInputLen ==
    MaxOf({MaxLen, StrMaxLen, HexShortDigits + 2, HexMaxDigits + 2,
           IdentMaxLen, NumMaxLen, CmtMaxLen}
          \cup {Len(i) : i \in Corpus})

\* The number of elements a Vec holds before its allocation fails.  A pass
\* that ends pushes at most Len(input) + 1 tokens and Len(input) + 1 bytes.
MemCap == MaxInputLen + 2

-----------------------------------------------------------------------------
(* The scanner: lookahead and byte classes. *)

byte_at(offset) ==
    IF pos + offset < Len(input) THEN input[pos + offset + 1] ELSE EOF_BYTE

\* byte_at with the cursor at p
byte_at_pos(p, offset) ==
    IF p + offset < Len(input) THEN input[p + offset + 1] ELSE EOF_BYTE

has_at_least(n) == pos + n < Len(input)

\* input.as_bytes()[pos..] panics when pos > input.len()
starts_with_panics == pos > Len(input)

\* starts_with that compares the first byte only
starts_with_first_byte(needle) ==
    /\ pos + 1 <= Len(input)
    /\ input[pos + 1] = needle[1]

starts_with(needle) ==
    /\ pos + Len(needle) <= Len(input)
    /\ \A i \in 1..Len(needle) : input[pos + i] = needle[i]

is_eof == ~has_at_least(0)

is_whitespace == byte_at(0) \in {B.space, B.tab, B.vt, B.ff}

is_escape_char ==
    byte_at(0) \in {B.upA, B.nl, B.cr, B.tab, B.backslash, B.nul, B.del}

is_digit(c) == c \in B.zero..B.nine

is_hex_digit(c) ==
    \/ c \in B.lowA..B.lowF
    \/ c \in B.upA..B.upF
    \/ is_digit(c)

is_alpha == byte_at(0) \in (B.lowA..B.lowZ) \cup (B.upA..B.upZ)

is_valid_ident_start == is_alpha \/ byte_at(0) = B.underscore

\* is_valid_ident without the digits
is_valid_ident_no_digit == is_alpha \/ is_valid_ident_start

is_valid_ident == is_alpha \/ is_digit(byte_at(0)) \/ is_valid_ident_start

-----------------------------------------------------------------------------
(* Token kinds and values. *)

\* "and" ... "return" as bytes, with the kind each maps to
KeywordTable ==
    { <<<<97, 110, 100>>, "And">>,
      <<<<103, 111, 116, 111>>, "Goto">>,
      <<<<102, 117, 110, 99, 116, 105, 111, 110>>, "Function">>,
      <<<<101, 110, 100>>, "End">>,
      <<<<102, 97, 108, 115, 101>>, "False">>,
      <<<<102, 111, 114>>, "For">>,
      <<<<101, 108, 115, 101>>, "Else">>,
      <<<<101, 108, 115, 101, 105, 102>>, "ElseIf">>,
      <<<<100, 111>>, "Do">>,
      <<<<98, 114, 101, 97, 107>>, "Break">>,
      <<<<108, 111, 99, 97, 108>>, "Local">>,
      <<<<105, 102>>, "If">>,
      <<<<105, 110>>, "In">>,
      <<<<110, 105, 108>>, "Nil">>,
      <<<<110, 111, 116>>, "Not">>,
      <<<<114, 101, 112, 101, 97, 116>>, "Repeat">>,
      <<<<111, 114>>, "Or">>,
      <<<<116, 104, 101, 110>>, "Then">>,
      <<<<116, 114, 117, 101>>, "True">>,
      <<<<119, 104, 105, 108, 101>>, "While">>,
      <<<<117, 110, 116, 105, 108>>, "Until">>,
      <<<<114, 101, 116, 117, 114, 110>>, "Return">> }

\* Some(kind) as <<kind>>, None as <<>>
convert_to_token_type(word) ==
    IF \E k \in KeywordTable : k[1] = word
    THEN <<(CHOOSE k \in KeywordTable : k[1] = word)[2]>>
    ELSE <<>>

\* TokenValue: None | Int(bits) | Float(n * 10^e) | Str(s).  The i64 of an
\* Int is its 64 bits (two's complement) as 16 hex digits, the most
\* significant first.
NoneVal == [tag |-> "None", s |-> <<>>, n |-> 0, e |-> 0, bits |-> <<>>]

StrVal(bytes) ==
    [tag |-> "Str", s |-> bytes, n |-> 0, e |-> 0, bits |-> <<>>]

IntVal(b) == [tag |-> "Int", s |-> <<>>, n |-> 0, e |-> 0, bits |-> b]

FloatVal(m, x) ==
    [tag |-> "Float", s |-> <<>>, n |-> m, e |-> x, bits |-> <<>>]

\* One element of Tokenizer.tokens; from and to are the cursor before and
\* after the next_token call that produced it.
Tok(kind, val, from, to) ==
    [kind |-> kind, val |-> val, from |-> from, to |-> to]

-----------------------------------------------------------------------------
(* Number conversion.  An i64 is its 16 hex digits; the mantissa and the    *)
(* exponent of a float are mathematical integers.                          *)

\* The i64 zero.
ZeroBits == [j \in 1..16 |-> 0]

\* The low i hex digits of nibs * m + carry, for hex digits nibs[1..i].
RECURSIVE MulAdd(_, _, _, _)
MulAdd(nibs, i, m, carry) ==
    IF i = 0 THEN <<>>
    ELSE LET v == nibs[i] * m + carry
         IN  Append(MulAdd(nibs, i - 1, m, v \div 16), v % 16)

AllDigits(text) == \A i \in 1..Len(text) : is_digit(text[i])

RECURSIVE DecValue(_)
DecValue(ds) ==
    IF ds = <<>> THEN 0
    ELSE 10 * DecValue(SubSeq(ds, 1, Len(ds) - 1)) + (ds[Len(ds)] - B.zero)

RECURSIVE StripZeros(_)
StripZeros(ds) ==
    IF ds # <<>> /\ ds[1] = B.zero THEN StripZeros(Tail(ds)) ELSE ds

\* 9223372036854775807, the digits of i64::MAX
I64MaxDigits ==
    <<57, 50, 50, 51, 51, 55, 50, 48, 51, 54, 56, 53, 52, 55, 55, 53, 56, 48,
      55>>

RECURSIVE LexLeq(_, _)
LexLeq(a, b) ==
    \/ a = <<>>
    \/ a[1] < b[1]
    \/ a[1] = b[1] /\ LexLeq(Tail(a), Tail(b))

FitsI64(ds) ==
    LET sig == StripZeros(ds) IN
    \/ Len(sig) < Len(I64MaxDigits)
    \/ Len(sig) = Len(I64MaxDigits) /\ LexLeq(sig, I64MaxDigits)

\* str::parse::<i64> on a text that starts with a digit or a dot (the only
\* texts read_digit builds): Ok iff it is all digits and fits 64 bits.
ParseI64Ok(text) == text # <<>> /\ AllDigits(text) /\ FitsI64(text)

\* The i64 that str::parse::<i64> gives for digits that fit.
RECURSIVE DecBits(_)
DecBits(ds) ==
    IF ds = <<>> THEN ZeroBits
    ELSE MulAdd(DecBits(SubSeq(ds, 1, Len(ds) - 1)), 16, 10,
                ds[Len(ds)] - B.zero)

HexDigitValue(c) ==
    IF c >= B.zero /\ c <= B.nine THEN c - 48
    ELSE IF c >= B.upA /\ c <= B.upF THEN c - 55
    ELSE IF c >= B.lowA /\ c <= B.lowF THEN c - 87
    ELSE 0

\* The number of bits of a hex digit value.
BitLen(d) ==
    IF d = 0 THEN 0
    ELSE IF d < 2 THEN 1
    ELSE IF d < 4 THEN 2
    ELSE IF d < 8 THEN 3
    ELSE 4

\* 16^k is an i64: 16^k < 2^63.
PowFits(k) == 4 * k < 63

\* d * 16^k is an i64.
ProductFits(d, k) == BitLen(d) + 4 * k <= 63

\* The loop of string_to_int, lines 348-357, in wrapping arithmetic, over
\* bytes[i], bytes[i-1], ..., bytes[1]; k iterations are done, so base is
\* 16^k, which is 0 in 64 bits from k = 16 on.  decimal is below 16^k, so
\* adding a digit times 16^k sets hex digit k of decimal, and the addition
\* never overflows where the product does not.
RECURSIVE HexAccumulate(_, _, _, _)
HexAccumulate(bytes, i, k, decimal) ==
    IF i = 0 THEN decimal
    ELSE HexAccumulate(bytes, i - 1, k + 1,
             IF k < 16
             THEN [decimal EXCEPT ![16 - k] = HexDigitValue(bytes[i])]
             ELSE decimal)

\* bytes.starts_with(b"0x")
HasHexPrefix(text) ==
    Len(text) >= 2 /\ text[1] = B.zero /\ text[2] = B.lowX

\* An operation of the loop overflows an i64: the product of line 350-354
\* in iteration k, or base *= 16 at its end (line 356).
string_to_int_overflows(text) ==
    /\ HasHexPrefix(text)
    /\ \E k \in 0..(Len(text) - 1) :
          /\ k <= 15
          /\ \/ ~ProductFits(HexDigitValue(text[Len(text) - k]), k)
             \/ ~PowFits(k + 1)

\* Some(v) as <<v>>, None as <<>>
string_to_int(text) ==
    IF HasHexPrefix(text)
    THEN <<IntVal(HexAccumulate(text, Len(text), 0, ZeroBits))>>
    ELSE IF ParseI64Ok(text) THEN <<IntVal(DecBits(text))>>
    ELSE <<>>

\* The first index of an exponent marker in text, 0 when there is none.
ExpIndex(text) ==
    IF \E i \in 1..Len(text) : text[i] \in {B.lowE, B.upE}
    THEN CHOOSE i \in 1..Len(text) :
            /\ text[i] \in {B.lowE, B.upE}
            /\ \A j \in 1..(i - 1) : text[j] \notin {B.lowE, B.upE}
    ELSE 0

Mantissa(text) ==
    IF ExpIndex(text) = 0 THEN text ELSE SubSeq(text, 1, ExpIndex(text) - 1)

Exponent(text) ==
    IF ExpIndex(text) = 0 THEN <<>>
    ELSE SubSeq(text, ExpIndex(text) + 1, Len(text))

DotIndex(m) ==
    IF \E i \in 1..Len(m) : m[i] = B.dot
    THEN CHOOSE i \in 1..Len(m) : m[i] = B.dot
    ELSE 0

IntPart(m) == IF DotIndex(m) = 0 THEN m ELSE SubSeq(m, 1, DotIndex(m) - 1)

FracPart(m) ==
    IF DotIndex(m) = 0 THEN <<>> ELSE SubSeq(m, DotIndex(m) + 1, Len(m))

ExpDigits(x) ==
    IF x # <<>> /\ x[1] \in {B.plus, B.minus} THEN Tail(x) ELSE x

\* str::parse::<f64> on a text that starts with a digit or a dot:
\*   Number ::= ( Digit+ | Digit+ '.' Digit* | Digit* '.' Digit+ ) Exp?
\*   Exp    ::= ('e' | 'E') ('+' | '-')? Digit+
ParseF64Ok(text) ==
    LET m == Mantissa(text)
        x == Exponent(text)
    IN  /\ AllDigits(IntPart(m))
        /\ AllDigits(FracPart(m))
        /\ Len(IntPart(m)) + Len(FracPart(m)) >= 1
        /\ ExpIndex(text) # 0 =>
              /\ ExpDigits(x) # <<>>
              /\ AllDigits(ExpDigits(x))

\* n * 10^e with no trailing zero in n
RECURSIVE Normalize(_, _)
Normalize(n, e) ==
    IF n = 0 THEN FloatVal(0, 0)
    ELSE IF n % 10 = 0 THEN Normalize(n \div 10, e + 1)
    ELSE FloatVal(n, e)

\* The exact decimal value of the literal (the rounding to the nearest f64
\* is not modelled).
F64Value(text) ==
    LET m == Mantissa(text)
        x == Exponent(text)
        xv == IF x # <<>> /\ x[1] = B.minus
              THEN 0 - DecValue(ExpDigits(x))
              ELSE DecValue(ExpDigits(x))
    IN  Normalize(DecValue(IntPart(m) \o FracPart(m)), xv - Len(FracPart(m)))

string_to_float(text) ==
    IF ParseF64Ok(text) THEN <<F64Value(text)>> ELSE <<>>

\* string_to_number that keeps the text of a float where its value belongs
string_to_number_float_as_text(text) ==
    IF string_to_int(text) # <<>>
    THEN [kind |-> "Int", val |-> string_to_int(text)[1]]
    ELSE IF string_to_float(text) # <<>>
    THEN [kind |-> "Float", val |-> StrVal(text)]
    ELSE [kind |-> "Unidentified", val |-> NoneVal]

\* string_to_number with the float parse tried first
string_to_number_float_first(text) ==
    IF string_to_float(text) # <<>>
    THEN [kind |-> "Float", val |-> string_to_float(text)[1]]
    ELSE IF string_to_int(text) # <<>>
    THEN [kind |-> "Int", val |-> string_to_int(text)[1]]
    ELSE [kind |-> "Unidentified", val |-> NoneVal]

\* (TokenType, TokenValue) as [kind, val]
string_to_number(text) ==
    IF string_to_int(text) # <<>>
    THEN [kind |-> "Int", val |-> string_to_int(text)[1]]
    ELSE IF string_to_float(text) # <<>>
    THEN [kind |-> "Float", val |-> string_to_float(text)[1]]
    ELSE [kind |-> "Unidentified", val |-> NoneVal]

-----------------------------------------------------------------------------
(* The dispatch of next_token and read_other_tokens: what the call does    *)
(* before any loop.  act = "emit": the call returns kind after advancing   *)
(* the cursor by adv.  Otherwise act names the sub-scanner that is entered *)
(* after advancing the cursor by adv.                                      *)

Fixed(kind, adv) == [act |-> "emit", kind |-> kind, adv |-> adv]

Scan(scanner, adv) == [act |-> scanner, kind |-> "", adv |-> adv]

\* the match of read_other_tokens: the one-byte tokens
SingleByteKind(c) ==
    CASE c = B.semicolon -> <<"Semicolon">>
      [] c = B.comma     -> <<"Comma">>
      [] c = B.amp       -> <<"BAnd">>
      [] c = B.pipe      -> <<"BOr">>
      [] c = B.lparen    -> <<"LeftParenthesis">>
      [] c = B.rparen    -> <<"RightParenthesis">>
      [] c = B.rbracket  -> <<"RightSquareBracket">>
      [] c = B.lbrace    -> <<"LeftCurlyBracket">>
      [] c = B.rbrace    -> <<"RightCurlyBracket">>
      [] c = B.plus      -> <<"Add">>
      [] c = B.star      -> <<"Mul">>
      [] c = B.slash     -> <<"Div">>
      [] c = B.percent   -> <<"Mod">>
      [] c = B.caret     -> <<"Pow">>
      [] c = B.hash      -> <<"Len">>
      [] OTHER           -> <<>>

read_other_tokens ==
    IF SingleByteKind(byte_at(0)) # <<>>
    THEN Fixed(SingleByteKind(byte_at(0))[1], 1)
    ELSE IF is_valid_ident_start THEN Scan("read_ident", 0)
    ELSE Fixed("Unidentified", 0)

next_token ==
    LET c == byte_at(0) IN
    IF is_whitespace THEN Fixed("Whitespace", 1)
    ELSE IF is_digit(c) THEN Scan("read_digit", 0)
    ELSE IF is_escape_char THEN Fixed("Whitespace", 1)
    ELSE IF c = B.dquote \/ c = B.squote THEN Scan("read_string", 0)
    ELSE IF c = B.greater THEN
        IF starts_with(<<B.greater, B.assign>>) THEN Fixed("GreaterOrEqual", 2)
        ELSE IF starts_with(<<B.greater, B.greater>>)
        THEN Fixed("ShiftRight", 2)
        ELSE Fixed("Greater", 1)
    ELSE IF c = B.dot THEN
        IF starts_with(<<B.dot, B.dot>>) THEN Fixed("Concat", 2)
        ELSE IF starts_with(<<B.dot, B.dot, B.dot>>) THEN Fixed("Dots", 3)
        ELSE IF is_digit(byte_at(1)) THEN Scan("read_digit", 0)
        ELSE Fixed("Attr", 1)
    ELSE IF c = B.assign THEN
        IF starts_with(<<B.assign, B.assign>>) THEN Fixed("Concat", 2)
        ELSE Fixed("Assign", 1)
    ELSE IF c = B.less THEN
        IF starts_with(<<B.less, B.assign>>) THEN Fixed("LessOrEqual", 2)
        ELSE IF starts_with(<<B.less, B.less>>) THEN Fixed("ShiftLeft", 2)
        ELSE Fixed("Less", 1)
    ELSE IF c = B.tilde THEN
        IF starts_with(<<B.tilde, B.assign>>) THEN Fixed("NotEqual", 2)
        ELSE Fixed("BXor", 1)
    ELSE IF c = B.colon THEN
        IF starts_with(<<B.colon, B.colon>>) THEN Fixed("DoubleColon", 2)
        ELSE Fixed("Colon", 1)
    ELSE IF c = B.lbracket THEN
        IF starts_with(<<B.lbracket, B.lbracket>>)
        THEN Scan("read_multi_line_comment", 2)
        ELSE Fixed("LeftSquareBracket", 1)
    ELSE IF c = B.minus THEN
        IF starts_with(<<B.minus, B.minus, B.lbracket, B.lbracket>>)
        THEN Scan("read_multi_line_comment", 4)
        ELSE IF starts_with(<<B.minus, B.minus>>)
        THEN Scan("read_single_line_comment", 2)
        ELSE Fixed("Minus", 1)
    ELSE read_other_tokens

-----------------------------------------------------------------------------
(* The state machine. *)

Scanners ==
    {"read_string", "read_single_line_comment", "read_multi_line_comment",
     "read_digit", "read_ident"}

Init ==
    /\ input \in Inputs
    /\ pos = 0
    /\ tokens = <<>>
    /\ pc = "main"
    /\ buf = <<>>
    /\ start_char = 0
    /\ hex = FALSE
    /\ tok_start = 0
    /\ overflow_checks \in BOOLEAN

\* The strings whose escapes matter, and the corpus.
InitEsc ==
    /\ input \in EscInputs
    /\ pos = 0
    /\ tokens = <<>>
    /\ pc = "main"
    /\ buf = <<>>
    /\ start_char = 0
    /\ hex = FALSE
    /\ tok_start = 0
    /\ overflow_checks \in BOOLEAN

\* The state after construction, for an input of S.
StartOn(S) ==
    /\ input \in S
    /\ pos = 0
    /\ tokens = <<>>
    /\ pc = "main"
    /\ buf = <<>>
    /\ start_char = 0
    /\ hex = FALSE
    /\ tok_start = 0
    /\ overflow_checks \in BOOLEAN

InitHex == StartOn(HexInputs)

InitIdent == StartOn(IdentInputs)

InitNum == StartOn(NumInputs)

InitCmt == StartOn(CmtInputs)

\* next_token returns (kind, val) with the cursor at newpos, and main pushes
\* the token (line 538); the push aborts the process when the Vec is full.
Return(kind, val, from, newpos) ==
    /\ pos' = newpos
    /\ IF Len(tokens) < MemCap
       THEN /\ tokens' = Append(tokens, Tok(kind, val, from, newpos))
            /\ pc' = "main"
       ELSE /\ tokens' = tokens
            /\ pc' = "oom"

\* main, line 536 and 540: the loop ends at is_eof and Eof is pushed.  The
\* loop pushed at most Len(input) tokens when it ends, so the Vec has room.
PushEof ==
    /\ pc = "main"
    /\ is_eof
    /\ tokens' = Append(tokens, Tok("Eof", NoneVal, pos, pos))
    /\ pc' = "done"
    /\ UNCHANGED <<input, overflow_checks, pos, buf, start_char, hex, tok_start>>

\* main, lines 536-539, with a call of next_token that returns without a loop
NextTokenFixed ==
    /\ pc = "main"
    /\ ~is_eof
    /\ next_token.act = "emit"
    /\ Return(next_token.kind, NoneVal, pos, pos + next_token.adv)
    /\ tok_start' = pos
    /\ UNCHANGED <<input, overflow_checks, buf, start_char, hex>>

\* main, lines 536-537, with a call of next_token that enters a sub-scanner:
\* the code of the scanner before its loop.
NextTokenScan ==
    /\ pc = "main"
    /\ ~is_eof
    /\ next_token.act \in Scanners
    /\ pc' = next_token.act
    /\ tok_start' = pos
    /\ CASE next_token.act = "read_string" ->
              \* lines 250-254
              /\ start_char' = byte_at(0)
              /\ pos' = pos + 1
              /\ buf' = <<>>
              /\ hex' = hex
         [] next_token.act = "read_digit" ->
              \* lines 287-296
              IF byte_at(0) = B.zero /\ byte_at(1) \in {B.lowX, B.upX}
              THEN /\ buf' = <<byte_at(0), byte_at(1)>>
                   /\ pos' = pos + 2
                   /\ hex' = TRUE
                   /\ start_char' = start_char
              ELSE /\ buf' = <<>>
                   /\ pos' = pos
                   /\ hex' = FALSE
                   /\ start_char' = start_char
         [] next_token.act = "read_ident" ->
              \* lines 445-448
              /\ buf' = <<byte_at(0)>>
              /\ pos' = pos + 1
              /\ UNCHANGED <<start_char, hex>>
         [] OTHER ->
              \* lines 513, 517, 518 and 204, 227
              /\ buf' = <<>>
              /\ pos' = pos + next_token.adv
              /\ UNCHANGED <<start_char, hex>>
    /\ UNCHANGED <<input, overflow_checks, tokens>>

\* read_string, lines 256-283: one iteration of the loop, and the return
\* when the iteration breaks.
ReadStringStep ==
    /\ pc = "read_string"
    /\ LET esc == byte_at(0) = B.backslash
           b1  == IF esc THEN buf \o <<byte_at(0), byte_at(1)>> ELSE buf
           p1  == IF esc THEN pos + 2 ELSE pos
           c   == byte_at_pos(p1, 0)
       IN  IF c # start_char /\ c # 3
           THEN /\ buf' = Append(b1, c)
                /\ pos' = p1 + 1
                /\ UNCHANGED <<tokens, pc>>
           ELSE IF c = start_char
           THEN /\ Return("StringLiteral", StrVal(b1), tok_start, p1 + 1)
                /\ buf' = b1
           ELSE /\ Return("UnclosedStringLiteral", NoneVal, tok_start, p1)
                /\ buf' = b1
    /\ UNCHANGED <<input, overflow_checks, start_char, hex, tok_start>>

\* read_single_line_comment, lines 206-223: one iteration of the loop, and
\* the return when the iteration breaks.  The push aborts the process when
\* the Vec is full.
ReadSingleLineCommentStep ==
    /\ pc = "read_single_line_comment"
    /\ IF byte_at(0) # B.nl
       THEN IF Len(buf) < MemCap
            THEN /\ buf' = Append(buf, byte_at(0))
                 /\ pos' = pos + 1
                 /\ UNCHANGED <<tokens, pc>>
            ELSE /\ pc' = "oom"
                 /\ UNCHANGED <<tokens, buf, pos>>
       ELSE /\ Return("SingleComment", StrVal(buf), tok_start, pos + 1)
            /\ buf' = buf
    /\ UNCHANGED <<input, overflow_checks, start_char, hex, tok_start>>

\* read_multi_line_comment, lines 229-246: one iteration of the loop, and
\* the return when the iteration breaks.  starts_with panics when the cursor
\* is past the end.
ReadMultiLineCommentStep ==
    /\ pc = "read_multi_line_comment"
    /\ IF is_escape_char
       THEN /\ pos' = pos + 1
            /\ UNCHANGED <<tokens, pc, buf>>
       ELSE IF starts_with_panics
       THEN /\ pc' = "panic"
            /\ UNCHANGED <<tokens, buf, pos>>
       ELSE IF starts_with(<<B.rbracket, B.rbracket>>)
       THEN /\ Return("MultiLineComment", StrVal(buf), tok_start, pos + 2)
            /\ buf' = buf
       ELSE /\ buf' = Append(buf, byte_at(0))
            /\ pos' = pos + 1
            /\ UNCHANGED <<tokens, pc>>
    /\ UNCHANGED <<input, overflow_checks, start_char, hex, tok_start>>

\* read_digit, lines 298-328: one iteration of the loop, and the return when
\* the iteration breaks, unless string_to_int panics on an overflow.
ReadDigitStep ==
    /\ pc = "read_digit"
    /\ IF ~hex /\ (is_digit(byte_at(0)) \/ byte_at(0) = B.dot)
       THEN /\ buf' = Append(buf, byte_at(0))
            /\ pos' = pos + 1
            /\ UNCHANGED <<tokens, pc>>
       ELSE IF hex /\ is_hex_digit(byte_at(0))
       THEN /\ buf' = Append(buf, byte_at(0))
            /\ pos' = pos + 1
            /\ UNCHANGED <<tokens, pc>>
       ELSE IF byte_at(0) = B.lowE \/ byte_at(0) = B.upE
       THEN /\ IF byte_at(1) \in {B.minus, B.plus}
               THEN /\ buf' = buf \o <<byte_at(0), byte_at(1)>>
                    /\ pos' = pos + 2
               ELSE /\ buf' = Append(buf, byte_at(0))
                    /\ pos' = pos + 1
            /\ UNCHANGED <<tokens, pc>>
       ELSE IF overflow_checks /\ string_to_int_overflows(buf)
       THEN /\ pc' = "overflow_panic"
            /\ UNCHANGED <<tokens, buf, pos>>
       ELSE /\ Return(string_to_number(buf).kind, string_to_number(buf).val,
                      tok_start, pos)
            /\ buf' = buf
    /\ UNCHANGED <<input, overflow_checks, start_char, hex, tok_start>>

\* read_other_tokens, lines 450-463: one iteration of the while loop, and
\* the return when its condition fails.
ReadIdentStep ==
    /\ pc = "read_ident"
    /\ IF is_valid_ident
       THEN /\ buf' = Append(buf, byte_at(0))
            /\ pos' = pos + 1
            /\ UNCHANGED <<tokens, pc>>
       ELSE /\ IF convert_to_token_type(buf) # <<>>
               THEN Return(convert_to_token_type(buf)[1], NoneVal,
                           tok_start, pos)
               ELSE Return("Identifier", StrVal(buf), tok_start, pos)
            /\ buf' = buf
    /\ UNCHANGED <<input, overflow_checks, start_char, hex, tok_start>>

Next ==
    \/ PushEof
    \/ NextTokenFixed
    \/ NextTokenScan
    \/ ReadStringStep
    \/ ReadSingleLineCommentStep
    \/ ReadMultiLineCommentStep
    \/ ReadDigitStep
    \/ ReadIdentStep

Spec == Init /\ [][Next]_vars

\* The program is one thread that runs until it ends: a step that can be
\* taken is taken.
FairSpec == Init /\ [][Next]_vars /\ WF_vars(Next)

\* The same program on the string inputs.
SpecEsc == InitEsc /\ [][Next]_vars

\* The same program on the hex literals.
SpecHex == InitHex /\ [][Next]_vars

\* The same program on the identifier inputs.
SpecIdent == InitIdent /\ [][Next]_vars

\* The same program on the number inputs.
SpecNum == InitNum /\ [][Next]_vars

\* The same program on the block comment inputs.
SpecCmt == InitCmt /\ [][Next]_vars

-----------------------------------------------------------------------------
(* What the properties speak of. *)

\* The tokens that next_token returned: all but the Eof that main pushes.
Returned == {i \in 1..Len(tokens) : tokens[i].kind # "Eof"}

\* The input holds the bytes of needle from offset s on.
InputAt(s, needle) ==
    /\ s + Len(needle) <= Len(input)
    /\ \A k \in 1..Len(needle) : input[s + k] = needle[k]

RECURSIVE SpanSum(_)
SpanSum(i) ==
    IF i = 0 THEN 0
    ELSE SpanSum(i - 1)
         + (IF tokens[i].kind = "Eof" THEN 0 ELSE tokens[i].to - tokens[i].from)

\* The index of the byte that closes a string opened by q, looking from
\* index i on: the first byte equal to q that is not the second byte of a
\* backslash pair.  0 when there is none.
RECURSIVE Closer(_, _)
Closer(i, q) ==
    IF i > Len(input) THEN 0
    ELSE IF input[i] = B.backslash THEN Closer(i + 2, q)
    ELSE IF input[i] = q THEN i
    ELSE Closer(i + 1, q)

\* The tokens of a call made with the cursor on a quote.
StringTokens ==
    {i \in Returned : input[tokens[i].from + 1] \in {B.dquote, B.squote}}

\* The index of the first newline from index i on, 0 when there is none.
RECURSIVE NewlineFrom(_)
NewlineFrom(i) ==
    IF i > Len(input) THEN 0
    ELSE IF input[i] = B.nl THEN i
    ELSE NewlineFrom(i + 1)

\* The tokens of a call made with the cursor on "--" that is not "--[[".
LineCommentTokens ==
    {i \in Returned :
        /\ InputAt(tokens[i].from, <<45, 45>>)
        /\ ~InputAt(tokens[i].from, <<45, 45, 91, 91>>)}

-----------------------------------------------------------------------------
(* The properties. *)

\* C1: the driver loop ends, and then the token sequence ends with Eof and
\* holds Eof nowhere else (next_token never returns Eof).
C1_EndsWithOneEof ==
    <>(/\ pc = "done"
       /\ tokens # <<>>
       /\ tokens[Len(tokens)].kind = "Eof"
       /\ \A i \in 1..(Len(tokens) - 1) : tokens[i].kind # "Eof")

\* C2: every call of next_token leaves the cursor strictly greater than it
\* found it, the call that returns Unidentified included.
C2_CursorAdvances ==
    \A i \in Returned : tokens[i].to > tokens[i].from

\* C3: no input makes the pass abort: the process neither panics nor runs
\* out of memory.
C3_NoAbort == pc \notin {"panic", "oom", "overflow_panic"}

\* C4: in every state, inside the sub-scanners too, the cursor is at most
\* the length of the input, and no step decreases it.
C4_CursorInBounds ==
    [][pos' <= Len(input') /\ pos' >= pos]_vars

\* C5: when the pass is complete the spans of the tokens are contiguous from
\* 0, their lengths sum to the length of the input, and the cursor is the
\* length of the input.
C5_SpansCoverInput ==
    pc = "done" =>
        /\ pos = Len(input)
        /\ tokens[1].from = 0
        /\ \A i \in 1..(Len(tokens) - 1) : tokens[i + 1].from = tokens[i].to
        /\ SpanSum(Len(tokens)) = Len(input)

\* C6: the longest operator is matched: "..." is Dots over 3 bytes, ".."
\* that is not "..." is Concat over 2 bytes, "--[[" is a block comment, "--"
\* that is not "--[[" a line comment, "-" that is not "--" is Minus, and
\* ">=", ">>", "<=", "<<", "~=", "::" are two-byte tokens.
C6_LongestMatch ==
    \A i \in Returned :
        LET s == tokens[i].from
            k == tokens[i].kind
            n == tokens[i].to - tokens[i].from
        IN  /\ InputAt(s, <<46, 46, 46>>) => k = "Dots" /\ n = 3
            /\ InputAt(s, <<46, 46>>) /\ ~InputAt(s, <<46, 46, 46>>)
                  => k = "Concat" /\ n = 2
            /\ InputAt(s, <<45, 45, 91, 91>>) => k = "MultiLineComment"
            /\ InputAt(s, <<45, 45>>) /\ ~InputAt(s, <<45, 45, 91, 91>>)
                  => k = "SingleComment"
            /\ InputAt(s, <<45>>) /\ ~InputAt(s, <<45, 45>>)
                  => k = "Minus" /\ n = 1
            /\ InputAt(s, <<62, 61>>) => k = "GreaterOrEqual" /\ n = 2
            /\ InputAt(s, <<62, 62>>) => k = "ShiftRight" /\ n = 2
            /\ InputAt(s, <<60, 61>>) => k = "LessOrEqual" /\ n = 2
            /\ InputAt(s, <<60, 60>>) => k = "ShiftLeft" /\ n = 2
            /\ InputAt(s, <<126, 61>>) => k = "NotEqual" /\ n = 2
            /\ InputAt(s, <<58, 58>>) => k = "DoubleColon" /\ n = 2

\* C7: a string is closed by the first later byte equal to its opening quote
\* that is not the second byte of a backslash pair: the token is a
\* StringLiteral that ends there and whose value is the bytes in between,
\* and no StringLiteral is closed by any other byte.
C7_StringClosedByFirstUnescapedQuote ==
    \A i \in StringTokens :
        LET s == tokens[i].from
            c == Closer(s + 2, input[s + 1])
        IN  /\ tokens[i].kind = "StringLiteral" => c # 0
            /\ c # 0 =>
                  /\ tokens[i].kind = "StringLiteral"
                  /\ tokens[i].to = c
                  /\ tokens[i].val = StrVal(SubSeq(input, s + 2, c - 1))

\* C8: the string scanner returns UnclosedStringLiteral, with no value, if
\* and only if the input has no closing delimiter, and then it stopped at
\* the end of the input, not at a byte of the input.
C8_UnclosedOnlyAtEndOfInput ==
    \A i \in StringTokens :
        LET s == tokens[i].from
            c == Closer(s + 2, input[s + 1])
        IN  /\ tokens[i].kind = "UnclosedStringLiteral" <=> c = 0
            /\ tokens[i].kind = "UnclosedStringLiteral" =>
                  /\ tokens[i].val = NoneVal
                  /\ tokens[i].to >= Len(input)

\* C9: after "--" the line comment scanner consumes up to and including the
\* next newline, or up to the end of the input when there is none, returns
\* SingleComment with the bytes before the newline, and never moves the
\* cursor past the end of the input.
C9_LineCommentEndsAtNewlineOrEnd ==
    /\ pc = "read_single_line_comment" => pos <= Len(input)
    /\ \A i \in LineCommentTokens :
          LET s == tokens[i].from
              n == NewlineFrom(s + 3)
          IN  /\ tokens[i].kind = "SingleComment"
              /\ tokens[i].to <= Len(input)
              /\ n # 0 =>
                    /\ tokens[i].to = n
                    /\ tokens[i].val = StrVal(SubSeq(input, s + 3, n - 1))
              /\ n = 0 =>
                    /\ tokens[i].to = Len(input)
                    /\ tokens[i].val =
                          StrVal(SubSeq(input, s + 3, Len(input)))

\* C10: a block comment scan that is at the end of the input (it found no
\* "]]") ends there and returns a token whose kind is not MultiLineComment.
C10_UnterminatedCommentIsDistinct ==
    [][(pc = "read_multi_line_comment" /\ pos >= Len(input)) =>
          /\ pc' = "main"
          /\ pos' = Len(input)
          /\ Len(tokens') = Len(tokens) + 1
          /\ tokens'[Len(tokens')].kind # "MultiLineComment"
          /\ tokens'[Len(tokens')].from = tok_start
          /\ tokens'[Len(tokens')].to = Len(input)]_vars

-----------------------------------------------------------------------------
(* Hex literals. *)

\* A hex digit, and its value.
IsHexByte(c) == c \in (48..57) \cup (65..70) \cup (97..102)

HexByteValue(c) ==
    IF c \in 48..57 THEN c - 48
    ELSE IF c \in 65..70 THEN c - 65 + 10
    ELSE c - 97 + 10

\* The index after the run of hex digits that starts at index i.
RECURSIVE HexRunEnd(_)
HexRunEnd(i) ==
    IF i <= Len(input) /\ IsHexByte(input[i]) THEN HexRunEnd(i + 1) ELSE i

\* The radix-16 value of the digits ds, as the low 64 bits.
Radix16(ds) ==
    [j \in 1..16 |->
        IF 16 - j < Len(ds) THEN HexByteValue(ds[Len(ds) - (16 - j)]) ELSE 0]

\* The i64 of a small natural number.
NatBits(n) == MulAdd(ZeroBits, 16, 1, n)

\* The tokens of a call made with the cursor on 0x or 0X.
HexTokens ==
    {i \in Returned :
        \/ InputAt(tokens[i].from, <<48, 120>>)
        \/ InputAt(tokens[i].from, <<48, 88>>)}

\* The digits after the prefix of the hex literal at offset s.
HexDigitsAt(s) == SubSeq(input, s + 3, HexRunEnd(s + 3) - 1)

\* C11: a literal that begins with 0x or 0X followed by at most 16 hex
\* digits is one Int token that ends after the digits and whose value is
\* the radix-16 value of the digits (0x1A and 0X1A are 26, 0x alone is 0).
C11_HexLiteralIsInt ==
    \A i \in HexTokens :
        LET s  == tokens[i].from
            ds == HexDigitsAt(s)
        IN  Len(ds) <= 16 =>
               /\ tokens[i].kind = "Int"
               /\ tokens[i].to = s + 2 + Len(ds)
               /\ tokens[i].val = IntVal(Radix16(ds))
               /\ ds = <<49, 65>> => tokens[i].val = IntVal(NatBits(26))
               /\ ds = <<>> => tokens[i].val = IntVal(NatBits(0))

\* C14: a hex literal with any number of digits (here with the prefix 0x;
\* the prefix 0X is the case of C11) is an Int whose value is the low 64
\* bits of the radix-16 value of its digits, and string_to_int does not
\* panic on an overflow.
C14_HexWrapsTo64Bits ==
    /\ pc # "overflow_panic"
    /\ \A i \in HexTokens :
          InputAt(tokens[i].from, <<48, 120>>) =>
             /\ tokens[i].kind = "Int"
             /\ tokens[i].val = IntVal(Radix16(HexDigitsAt(tokens[i].from)))

-----------------------------------------------------------------------------
(* Identifiers and keywords. *)

\* The 22 reserved words (and, goto, function, end, false, for, else,
\* elseif, do, break, local, if, in, nil, not, repeat, or, then, true,
\* while, until, return), each with its kind.
ReservedWords ==
    {
      <<<<97, 110, 100>>, "And">>,
      <<<<103, 111, 116, 111>>, "Goto">>,
      <<<<102, 117, 110, 99, 116, 105, 111, 110>>, "Function">>,
      <<<<101, 110, 100>>, "End">>,
      <<<<102, 97, 108, 115, 101>>, "False">>,
      <<<<102, 111, 114>>, "For">>,
      <<<<101, 108, 115, 101>>, "Else">>,
      <<<<101, 108, 115, 101, 105, 102>>, "ElseIf">>,
      <<<<100, 111>>, "Do">>,
      <<<<98, 114, 101, 97, 107>>, "Break">>,
      <<<<108, 111, 99, 97, 108>>, "Local">>,
      <<<<105, 102>>, "If">>,
      <<<<105, 110>>, "In">>,
      <<<<110, 105, 108>>, "Nil">>,
      <<<<110, 111, 116>>, "Not">>,
      <<<<114, 101, 112, 101, 97, 116>>, "Repeat">>,
      <<<<111, 114>>, "Or">>,
      <<<<116, 104, 101, 110>>, "Then">>,
      <<<<116, 114, 117, 101>>, "True">>,
      <<<<119, 104, 105, 108, 101>>, "While">>,
      <<<<117, 110, 116, 105, 108>>, "Until">>,
      <<<<114, 101, 116, 117, 114, 110>>, "Return">> }

IsReserved(run) == \E w \in ReservedWords : w[1] = run

ReservedKind(run) == (CHOOSE w \in ReservedWords : w[1] = run)[2]

IsIdentStartByte(c) == c \in (97..122) \cup (65..90) \cup {95}

IsIdentByte(c) == IsIdentStartByte(c) \/ c \in 48..57

\* The index after the run of identifier bytes that starts at index i.
RECURSIVE IdentRunEnd(_)
IdentRunEnd(i) ==
    IF i <= Len(input) /\ IsIdentByte(input[i]) THEN IdentRunEnd(i + 1) ELSE i

\* The tokens of a call that takes the identifier path: the cursor is on an
\* identifier start that no earlier rule of next_token takes (the letter A,
\* 0x41, is taken by the escape rule).
IdentTokens ==
    {i \in Returned :
        /\ IsIdentStartByte(input[tokens[i].from + 1])
        /\ input[tokens[i].from + 1] # 65}

\* The maximal run of identifier bytes at offset s.
IdentRunAt(s) == SubSeq(input, s + 1, IdentRunEnd(s + 1) - 1)

\* w is a prefix of run, and shorter.
ProperPrefix(w, run) ==
    Len(w) < Len(run) /\ SubSeq(run, 1, Len(w)) = w

\* C12: a call on the identifier path consumes the maximal run of
\* identifier bytes; the token is the keyword kind, with no value, if and
\* only if the run is one of the 22 reserved words, and else it is an
\* Identifier whose value is the run.
C12_KeywordIffExactWord ==
    \A i \in IdentTokens :
        LET run == IdentRunAt(tokens[i].from)
        IN  /\ tokens[i].to = tokens[i].from + Len(run)
            /\ IsReserved(run) =>
                  /\ tokens[i].kind = ReservedKind(run)
                  /\ tokens[i].val = NoneVal
            /\ ~IsReserved(run) =>
                  /\ tokens[i].kind = "Identifier"
                  /\ tokens[i].val = StrVal(run)

\* A pass that returned a keyword for a run that is a reserved word and an
\* Identifier for a run that begins with a reserved word.
C12_Witness ==
    /\ pc = "done"
    /\ Cardinality(ReservedWords) = 22
    /\ \E i \in IdentTokens :
          /\ IsReserved(IdentRunAt(tokens[i].from))
          /\ tokens[i].kind = "And"
    /\ \E j \in IdentTokens :
          /\ tokens[j].kind = "Identifier"
          /\ \E w \in ReservedWords :
                ProperPrefix(w[1], IdentRunAt(tokens[j].from))

-----------------------------------------------------------------------------
(* Decimal and float literals. *)

\* The tokens of a call that starts on a number that is not a hex literal:
\* on a digit, or on a dot that a digit follows, and not on 0x or 0X.
DecTokens ==
    {i \in Returned :
        LET s == tokens[i].from
        IN  /\ \/ input[s + 1] \in 48..57
               \/ /\ input[s + 1] = 46
                  /\ s + 2 <= Len(input)
                  /\ input[s + 2] \in 48..57
            /\ ~InputAt(s, <<48, 120>>)
            /\ ~InputAt(s, <<48, 88>>)}

\* The raw text of token i: the bytes its call consumed.
RawText(i) == SubSeq(input, tokens[i].from + 1, tokens[i].to)

\* C13: the raw text of a non-hex number is an Int when it parses as an
\* i64; if not, a Float when it parses as an f64; if not, one Unidentified
\* token with no value that spans every byte the scanner consumed.  The
\* scanner always returns a token and the pass does not abort in it.
C13_IntThenFloatThenUnidentified ==
    /\ pc = "overflow_panic" => hex
    /\ pc = "read_digit" /\ ~hex => pos <= Len(input)
    /\ \A i \in DecTokens :
          LET text == RawText(i)
          IN  /\ tokens[i].to > tokens[i].from
              /\ i = Len(tokens) /\ pc = "main" => pos = tokens[i].to
              /\ tokens[i].kind =
                    IF ParseI64Ok(text) THEN "Int"
                    ELSE IF ParseF64Ok(text) THEN "Float"
                    ELSE "Unidentified"
              /\ tokens[i].kind = "Int" => tokens[i].val.tag = "Int"
              /\ tokens[i].kind = "Float" => tokens[i].val.tag = "Float"
              /\ tokens[i].kind = "Unidentified" => tokens[i].val = NoneVal
              /\ text = <<51, 46, 49, 52, 49, 53>> =>
                    tokens[i].val = FloatVal(31415, 0 - 4)
              /\ text = <<46, 53, 50>> =>
                    tokens[i].val = FloatVal(52, 0 - 2)
              /\ text = <<49, 48, 69, 43, 52>> =>
                    tokens[i].val = FloatVal(1, 5)
              /\ text = <<49, 50>> =>
                    tokens[i].val = IntVal(NatBits(12))

\* A finished pass with a number that neither parse accepts, returned as
\* one Unidentified token of several bytes, and with an Int after it.
C13_Witness ==
    /\ pc = "done"
    /\ \E i \in DecTokens :
          /\ tokens[i].kind = "Unidentified"
          /\ tokens[i].to >= tokens[i].from + 3
          /\ \E j \in DecTokens : j > i /\ tokens[j].kind = "Int"

\* The byte of the input at index i, the end-of-input sentinel past the end.
InputByte(i) == IF i >= 1 /\ i <= Len(input) THEN input[i] ELSE 3

\* The index after the run of decimal digits that starts at index i.
RECURSIVE DigitsEnd(_)
DigitsEnd(i) ==
    IF InputByte(i) \in 48..57 THEN DigitsEnd(i + 1) ELSE i

\* The index after the literal that starts at index i: digits, one optional
\* dot, digits, and one optional exponent marker with an optional sign and
\* digits.
LiteralEnd(i) ==
    LET a == DigitsEnd(i)
        b == IF InputByte(a) = 46 THEN DigitsEnd(a + 1) ELSE a
        d == IF InputByte(b + 1) \in {43, 45} THEN b + 2 ELSE b + 1
    IN  IF InputByte(b) \in {69, 101} THEN DigitsEnd(d) ELSE b

\* C15: a decimal or float literal ends after digits, at most one dot, more
\* digits, and at most one exponent marker with its optional sign and
\* digits; a second dot or a second exponent marker is not part of it.
C15_OneDotOneExponent ==
    \A i \in DecTokens :
        tokens[i].to = LiteralEnd(tokens[i].from + 1) - 1

-----------------------------------------------------------------------------
(* Whitespace and block comments. *)

\* Space, tab, vertical tab, form feed.
WhitespaceClass == {32, 9, 11, 12}

\* Newline, carriage return, tab, backslash, NUL, DEL.
EscapeClass == {10, 13, 9, 92, 0, 127}

\* C16: a call returns Whitespace if and only if the byte at the cursor is
\* in the whitespace class or in the escape class, and a Whitespace token
\* is one byte long; a letter is never Whitespace.
C16_WhitespaceIffClassByte ==
    \A i \in Returned :
        LET c == input[tokens[i].from + 1]
        IN  /\ tokens[i].kind = "Whitespace" <=>
                  c \in WhitespaceClass \cup EscapeClass
            /\ tokens[i].kind = "Whitespace" =>
                  tokens[i].to = tokens[i].from + 1
            /\ c \in (65..90) \cup (97..122) =>
                  tokens[i].kind # "Whitespace"

\* The length of the block comment opener at offset s, 0 when there is none.
OpenerLen(s) ==
    IF InputAt(s, <<45, 45, 91, 91>>) THEN 4
    ELSE IF InputAt(s, <<91, 91>>) THEN 2
    ELSE 0

\* The offsets, from offset s on, where the input holds "]]".
ClosersFrom(s) == {c \in s..Len(input) : InputAt(c, <<93, 93>>)}

\* The first of them.
FirstCloser(s) ==
    CHOOSE c \in ClosersFrom(s) : \A d \in ClosersFrom(s) : c <= d

\* bytes without its escape-class bytes, the others in order.
RECURSIVE StripEscapes(_)
StripEscapes(bytes) ==
    IF bytes = <<>> THEN <<>>
    ELSE IF bytes[1] \in EscapeClass THEN StripEscapes(Tail(bytes))
    ELSE <<bytes[1]>> \o StripEscapes(Tail(bytes))

\* The tokens of a call that starts on a block comment opener with a "]]"
\* somewhere after the opener.
ClosedBlockTokens ==
    {i \in Returned :
        /\ OpenerLen(tokens[i].from) > 0
        /\ ClosersFrom(tokens[i].from + OpenerLen(tokens[i].from)) # {}}

\* C17: a closed block comment ends after the first "]]" that follows its
\* opener, and the value of the MultiLineComment is the bytes between the
\* opener and that "]]" without the escape-class bytes, every other byte
\* kept, in order.
C17_BlockCommentKeepsOtherBytes ==
    \A i \in ClosedBlockTokens :
        LET body == tokens[i].from + OpenerLen(tokens[i].from)
            c == FirstCloser(body)
        IN  /\ tokens[i].kind = "MultiLineComment"
            /\ tokens[i].to = c + 2
            /\ tokens[i].val = StrVal(StripEscapes(SubSeq(input, body + 1, c)))

-----------------------------------------------------------------------------
(* The "==" operator, and the value tag of each kind. *)

\* C18: a call on "==" consumes two bytes and returns Concat, the kind
\* that ".." gives; a call on a "=" that no "=" follows consumes one byte
\* and returns Assign; no token has the kind Equal.
C18_DoubleEqualsIsConcat ==
    \A i \in Returned :
        LET s == tokens[i].from
        IN  /\ InputAt(s, <<61, 61>>) =>
                  /\ tokens[i].kind = "Concat"
                  /\ tokens[i].to = s + 2
                  /\ tokens[i].val = NoneVal
            /\ input[s + 1] = 61 /\ ~InputAt(s, <<61, 61>>) =>
                  /\ tokens[i].kind = "Assign"
                  /\ tokens[i].to = s + 1
            /\ InputAt(s, <<46, 46>>) => tokens[i].kind = "Concat"
            /\ tokens[i].kind # "Equal"

\* A finished pass over "===": Concat for the first two bytes, then Assign.
C18_Witness ==
    /\ pc = "done"
    /\ \E i \in Returned :
          /\ InputAt(tokens[i].from, <<61, 61>>)
          /\ tokens[i].kind = "Concat"
          /\ i + 1 \in Returned
          /\ tokens[i + 1].kind = "Assign"
          /\ tokens[i + 1].from = tokens[i].from + 2

\* The value tag that goes with a kind.
TagOfKind(kind) ==
    IF kind = "Int" THEN "Int"
    ELSE IF kind = "Float" THEN "Float"
    ELSE IF kind \in {"Identifier", "StringLiteral", "SingleComment",
                      "MultiLineComment"}
    THEN "Str"
    ELSE "None"

\* C19: the value of every token that next_token returns has the tag of
\* its kind: Int for Int, Float for Float, Str for Identifier,
\* StringLiteral, SingleComment and MultiLineComment, None for the rest.
C19_ValueTagFollowsKind ==
    \A i \in Returned :
        /\ tokens[i].val.tag = TagOfKind(tokens[i].kind)
        /\ tokens[i].val.tag = "None" => tokens[i].val = NoneVal
        /\ tokens[i].val.tag = "Str" => tokens[i].val = StrVal(tokens[i].val.s)
        /\ tokens[i].val.tag = "Int" => tokens[i].val = IntVal(tokens[i].val.bits)

\* A finished pass with an Identifier, a number, and a token of a kind that
\* carries no value.
C19_Witness ==
    /\ pc = "done"
    /\ \E i, j, k \in Returned :
          /\ tokens[i].kind = "Identifier" /\ tokens[i].val.tag = "Str"
          /\ tokens[j].kind \in {"Int", "Float"}
          /\ tokens[k].kind \in {"Assign", "Colon", "Unidentified", "Whitespace"}
          /\ tokens[k].val = NoneVal

=============================================================================
